---- MODULE Spec2Model ----
(***************************************************************************)
(* Model of goderive's compare plugin (compare.go): the constructor        *)
(* newCompare, the work-list driven Generate / genFuncFor / field          *)
(* dispatcher, and the semantics of the comparison functions it emits.     *)
(***************************************************************************)
EXTENDS Integers, Sequences, FiniteSets

VARIABLES
    calls,       \* the call sites handed to newCompare
    this,        \* the *compare instance newCompare returned: "nil" or "compare"
    pc,          \* position of the run
    funcToTyp,   \* TypesMap: type -> function name (NoName when absent)
    generated,   \* TypesMap: types marked by Generating
    finished,    \* types whose genFuncFor returned nil
    sortedKeys,  \* compare.sortedKeys: "nil" or "bound"
    skNames,     \* map types whose name was requested from the sortedKeys plugin
    out,         \* lines received by the Printer
    imports,     \* packages for which p.NewImport was called
    todo,        \* the part of the ToGenerate() snapshot Generate still has to visit
    cur,         \* the type genFuncFor is working on
    err,         \* the error returned by newCompare / Generate
    handed,      \* every <<type, name>> a name request has returned
    entered,     \* number of times genFuncFor was entered, per type
    rounds,      \* number of Generate calls made by the driver
    ctype, va, vb, res, rres, cstate   \* comparator evaluation (SpecCmp)

vars == <<calls, this, pc, funcToTyp, generated, finished, sortedKeys, skNames, out,
          imports, todo, cur, err, handed, entered, rounds,
          ctype, va, vb, res, rres, cstate>>

genVars == <<calls, this, pc, funcToTyp, generated, finished, sortedKeys, skNames, out,
             imports, todo, cur, err, handed, entered, rounds>>

cmpVars == <<ctype, va, vb, res, rres, cstate>>

-----------------------------------------------------------------------------
(* Bounds *)

MaxCalls == 2
MaxRounds == 8
MaxInt == 2
MaxLen == 2

-----------------------------------------------------------------------------
(* The type universe handed over by the type checker (go/types).           *)

Ty(kind, bkind, elem, key, fields, under, hasMethod) ==
    [kind |-> kind, bkind |-> bkind, elem |-> elem, key |-> key,
     fields |-> fields, under |-> under, hasMethod |-> hasMethod]

Basic(bkind) == Ty("Basic", bkind, "", "", <<>>, "", FALSE)
Pointer(elem) == Ty("Pointer", "", elem, "", <<>>, "", FALSE)
Slice(elem) == Ty("Slice", "", elem, "", <<>>, "", FALSE)
Array(elem) == Ty("Array", "", elem, "", <<>>, "", FALSE)
Map(key, elem) == Ty("Map", "", elem, key, <<>>, "", FALSE)
Struct(fields) == Ty("Struct", "", "", "", fields, "", FALSE)
Named(under, hasMethod) == Ty("Named", "", "", "", <<>>, under, hasMethod)
Chan(elem) == Ty("Chan", "", elem, "", <<>>, "", FALSE)
Field(name, typ) == [name |-> name, typ |-> typ]

TypeDef ==
    [t \in {"int", "float64", "string", "bool", "complex128", "byte",
            "chan int", "*int", "[]int", "[]byte", "[2]bool",
            "map[int]float64", "map[string]float64",
            "Node", "struct Node", "*Node",
            "Pair", "struct Pair", "Bad", "struct Bad",
            "T", "U", "struct A", "Holder", "struct Holder",
            "Dict", "struct Dict", "P", "*P"} |->
       CASE t = "int" -> Basic("Int")
         [] t = "float64" -> Basic("Float64")
         [] t = "string" -> Basic("String")
         [] t = "bool" -> Basic("Bool")
         [] t = "complex128" -> Basic("Complex128")
         [] t = "byte" -> Basic("Byte")
         [] t = "chan int" -> Chan("int")
         [] t = "*int" -> Pointer("int")
         [] t = "[]int" -> Slice("int")
         [] t = "[]byte" -> Slice("byte")
         [] t = "[2]bool" -> Array("bool")
         [] t = "map[int]float64" -> Map("int", "float64")
         [] t = "map[string]float64" -> Map("string", "float64")
         [] t = "Node" -> Named("struct Node", FALSE)
         [] t = "struct Node" ->
              Struct(<<Field("val", "int"), Field("next", "*Node")>>)
         [] t = "*Node" -> Pointer("Node")
         [] t = "Pair" -> Named("struct Pair", FALSE)
         [] t = "struct Pair" ->
              Struct(<<Field("A", "int"), Field("B", "string")>>)
         [] t = "Bad" -> Named("struct Bad", FALSE)
         [] t = "struct Bad" ->
              Struct(<<Field("A", "[2]bool"), Field("C", "chan int")>>)
         [] t = "T" -> Named("struct A", TRUE)
         [] t = "U" -> Named("struct A", FALSE)
         [] t = "struct A" -> Struct(<<Field("A", "int")>>)
         [] t = "Holder" -> Named("struct Holder", FALSE)
         [] t = "struct Holder" ->
              Struct(<<Field("t", "T"), Field("u", "U"), Field("bs", "[]byte"),
                       Field("p", "*int"), Field("xs", "[]int")>>)
         [] t = "P" -> Named("*P", FALSE)
         [] t = "*P" -> Pointer("P")
         [] t = "Dict" -> Named("struct Dict", FALSE)
         [] t = "struct Dict" ->
              Struct(<<Field("m", "map[string]float64"), Field("ok", "bool")>>)]

Types == DOMAIN TypeDef

\* types.Type.Underlying()
Underlying(typ) ==
    IF TypeDef[typ].kind = "Named" THEN TypeDef[typ].under ELSE typ

\* types.Identical, on canonical type names
Identical(t0, t1) == t0 = t1

-----------------------------------------------------------------------------
(* Function names and the TypesMap registry.                               *)

comparePrefix == <<"deriveCompare">>

NoName == [base |-> <<>>, of |-> ""]

\* strings.HasPrefix on names split in words
HasPrefix(s, prefix) ==
    /\ Len(s) >= Len(prefix)
    /\ SubSeq(s, 1, Len(prefix)) = prefix

newTypesMap == [t \in Types |-> NoName]

\* a fresh name: the prefix and the canonical name of the type
newName(typ) == [base |-> comparePrefix, of |-> typ]

\* TypesMap.SetFuncName: an error when the type already has another name or
\* the name already belongs to another type
SetFuncName(fm, typ, funcName) ==
    LET name == [base |-> funcName, of |-> ""] IN
    IF fm[typ] # NoName
    THEN [ok |-> fm[typ] = name, fm |-> fm]
    ELSE IF \E t \in Types : fm[t] = name
         THEN [ok |-> FALSE, fm |-> fm]
         ELSE [ok |-> TRUE, fm |-> [fm EXCEPT ![typ] = name]]

\* TypesMap.GetFuncName: the existing name, or a fresh one recorded as pending
GetFuncName(fm, typ) ==
    IF fm[typ] # NoName
    THEN [name |-> fm[typ], fm |-> fm]
    ELSE [name |-> newName(typ), fm |-> [fm EXCEPT ![typ] = newName(typ)]]

\* TypesMap.ToGenerate: the named types not yet marked by Generating
ToGenerate(fm, gen) == {t \in Types : fm[t] # NoName /\ t \notin gen}

-----------------------------------------------------------------------------
(* Errors *)

NoErr == [kind |-> "none", cites |-> <<>>, typ |-> ""]
Err(kind, cites, typ) == [kind |-> kind, cites |-> cites, typ |-> typ]

-----------------------------------------------------------------------------
(* Call sites *)

Call(ident, name, args) == [ident |-> ident, name |-> name, args |-> args]

CallSites ==
    { Call(TRUE, <<"deriveCompare">>, <<"*Node", "*Node">>),
      Call(TRUE, <<"deriveCompare">>, <<"Dict", "Dict">>),
      Call(TRUE, <<"deriveCompare", "A">>, <<"Holder", "Holder">>),
      Call(TRUE, <<"deriveCompare", "B">>, <<"Bad", "Bad">>),
      Call(TRUE, <<"deriveCompare", "B">>, <<"int", "int">>),
      Call(TRUE, <<"deriveCompare", "C">>, <<"chan int", "chan int">>),
      Call(TRUE, <<"deriveCompare", "P">>, <<"P", "P">>),
      Call(TRUE, <<"deriveCompare", "D">>, <<"int">>),
      Call(TRUE, <<"deriveCompare", "E">>, <<"int", "string">>),
      Call(TRUE, <<"deriveEqual">>, <<"int", "string">>),
      Call(FALSE, <<"deriveCompare">>, <<"int">>) }

RECURSIVE SeqsUpTo(_, _)
SeqsUpTo(S, n) ==
    IF n = 0 THEN {<<>>}
    ELSE LET shorter == SeqsUpTo(S, n - 1) IN
         shorter \cup {Append(s, x) : s \in {q \in shorter : Len(q) = n - 1}, x \in S}

\* the call sites newCompare passes over: the callee is no identifier, or
\* its name lacks the prefix
Skipped(call) == ~call.ident \/ ~HasPrefix(call.name, comparePrefix)

\* checkCall without the comparison of the two argument types
checkCall_arityOnly(call) ==
    IF Len(call.args) # 2 THEN Err("arity", call.name, "") ELSE NoErr

\* the checks newCompare makes on a call site it does not skip
checkCall(call) ==
    IF Len(call.args) # 2 THEN Err("arity", call.name, "")
    ELSE IF ~Identical(call.args[1], call.args[2])
    THEN Err("mismatch", call.name, call.args[1])
    ELSE NoErr

\* newCompare registers the callee's name for the type of the arguments
register(r, typ) ==
    [err |-> IF r.ok THEN NoErr ELSE Err("register", <<>>, typ), fm |-> r.fm]

\* newCompare's loop over the call sites, from call i on
RECURSIVE newCompareLoop(_, _, _), newCompareStep(_, _, _)
newCompareStep(cs, i, r) ==
    IF r.err # NoErr THEN r ELSE newCompareLoop(cs, i + 1, r.fm)

newCompareLoop(cs, i, fm) ==
    IF i > Len(cs) THEN [err |-> NoErr, fm |-> fm]
    ELSE IF Skipped(cs[i]) THEN newCompareLoop(cs, i + 1, fm)
    ELSE IF checkCall(cs[i]) # NoErr THEN [err |-> checkCall(cs[i]), fm |-> fm]
    ELSE newCompareStep(cs, i,
                        register(SetFuncName(fm, cs[i].args[1], cs[i].name),
                                 cs[i].args[1]))

-----------------------------------------------------------------------------
(* Lines handed to the Printer.  A line keeps what the text says: its      *)
(* template (k), the function name it mentions (fn) and the type that name *)
(* or method belongs to (ty).                                              *)

Line(k, fn, ty) == [k |-> k, fn |-> fn, ty |-> ty]
Fixed(k) == Line(k, NoName, "")

\* "if this == nil { if that == nil { return 0 }; return -1 }; if that == nil { return 1 }"
NilCheck == <<Fixed("nilcheck")>>
\* "if len(this) != len(that) { if len(this) < len(that) { return -1 }; return 1 }"
LenCheck == <<Fixed("lencheck")>>
\* "if c := <cmp>; c != 0 { return c }"
IfC(cmp) == <<cmp>>

NamedTypes == {t \in Types : TypeDef[t].kind = "Named"}
ByteTypes == {t \in Types : TypeDef[t].kind = "Basic" /\ TypeDef[t].bkind = "Byte"}

FieldRes(ok, line, fm) == [ok |-> ok, line |-> line, fm |-> fm]

\* viaName printing the conventional name without asking the registry
viaName_unregistered(fm, fieldType) ==
    FieldRes(TRUE, Line("call", newName(fieldType), fieldType), fm)

\* "<name>(thisField, thatField)" with the name this.GetFuncName returns
viaName(fm, fieldType) ==
    FieldRes(TRUE, Line("call", GetFuncName(fm, fieldType).name, fieldType),
             GetFuncName(fm, fieldType).fm)

\* compare.field's switch, d being the field type's description
fieldSwitch(fm, fieldType, d) ==
    CASE d.kind = "Basic" /\ d.bkind = "String" ->
           FieldRes(TRUE, Line("strings.Compare", NoName, fieldType), fm)
      [] d.kind = "Pointer" /\ d.elem \in NamedTypes ->
           FieldRes(TRUE, Line("method", NoName, d.elem), fm)
      [] d.kind = "Slice" /\ d.elem \in ByteTypes ->
           FieldRes(TRUE, Line("bytes.Compare", NoName, fieldType), fm)
      [] d.kind = "Named" ->
           FieldRes(TRUE, Line("method", NoName, fieldType), fm)
      [] d.kind \in {"Basic", "Pointer", "Array", "Map", "Slice"} ->
           viaName(fm, fieldType)
      [] OTHER ->
           FieldRes(FALSE, Fixed("none"), fm)

\* compare.field: the comparison expression of a field, element, key or value
field(fm, fieldType) == fieldSwitch(fm, fieldType, TypeDef[fieldType])

Res(status, lines, fm, sk, e) ==
    [status |-> status, lines |-> lines, fm |-> fm, sk |-> sk, err |-> e]

ErrField(lines, fm, sk, typ) ==
    Res("err", lines, fm, sk, Err("unsupportedField", <<>>, typ))

\* the struct case's loop over the fields, from field i on; f is field()'s
\* result for field i
RECURSIVE structFields(_, _, _, _, _), structField(_, _, _, _, _)
structField(fields, i, lines, sk, f) ==
    IF ~f.ok THEN ErrField(lines, f.fm, sk, fields[i].typ)
    ELSE structFields(fields, i + 1, f.fm, lines \o IfC(f.line), sk)

structFields(fields, i, fm, lines, sk) ==
    IF i > Len(fields) THEN Res("ok", lines \o <<Fixed("return 0")>>, fm, sk, NoErr)
    ELSE structField(fields, i, lines, sk, field(fm, fields[i].typ))

\* the slice and array cases: the loop over the elements, f being field()'s
\* result for the element type
elemLoop(lines, sk, elem, f) ==
    IF ~f.ok THEN ErrField(lines, f.fm, sk, elem)
    ELSE Res("ok", lines \o IfC(f.line) \o <<Fixed("}"), Fixed("return 0")>>,
             f.fm, sk, NoErr)

\* the name the bound sortedKeys plugin gives its function for a map type
sortedKeysName(typ) == [base |-> <<"deriveSortedKeys">>, of |-> typ]

Tagged(tag, line) == [line EXCEPT !.k = tag \o line.k]

\* the map case from the comparison of the keys on, k being field()'s result
\* for the key type
mapKeys(lines, sk, key, k) ==
    IF ~k.ok THEN ErrField(lines, k.fm, sk, key)
    ELSE Res("ok", lines \o IfC(Tagged("key:", k.line))
                         \o <<Fixed("}"), Fixed("}"), Fixed("return 0")>>,
             k.fm, sk, NoErr)

\* the map case from the comparison of the values on, v being field()'s
\* result for the value type
mapValues(lines, sk, d, v) ==
    IF ~v.ok THEN ErrField(lines, v.fm, sk, d.elem)
    ELSE mapKeys(lines \o IfC(Tagged("value:", v.line)) \o <<Fixed("} else {")>>,
                 sk, d.key, field(v.fm, d.key))

\* mapCase going on without a plugin
mapCase_unchecked(fm, sk, bound, typ, d) ==
    mapValues(NilCheck \o LenCheck
                \o <<Line("thiskeys", sortedKeysName(typ), typ),
                     Line("thatkeys", sortedKeysName(typ), typ),
                     Fixed("for i, thiskey"), Fixed("thatkey := thatkeys[i]"),
                     Fixed("if thiskey == thatkey {")>>,
              sk \cup {typ}, d, field(fm, d.elem))

\* the map case; a nil sortedKeys plugin makes the method call panic
mapCase(fm, sk, bound, typ, d) ==
    IF bound = "nil"
    THEN Res("panic", NilCheck \o LenCheck, fm, sk, NoErr)
    ELSE mapValues(NilCheck \o LenCheck
                     \o <<Line("thiskeys", sortedKeysName(typ), typ),
                          Line("thatkeys", sortedKeysName(typ), typ),
                          Fixed("for i, thiskey"), Fixed("thatkey := thatkeys[i]"),
                          Fixed("if thiskey == thatkey {")>>,
                   sk \cup {typ}, d, field(fm, d.elem))

\* "return <name>(*this, *that)" with the name GetFuncName returned
pointerCase(g, sk, ref) ==
    Res("ok", NilCheck \o <<Line("return call", g.name, ref)>>, g.fm, sk, NoErr)

basicCase(bkind) ==
    CASE bkind = "String" -> <<Fixed("return strings.Compare")>>
      [] bkind \in {"Complex128", "Complex64"} -> <<Fixed("return 0 //TODO")>>
      [] bkind = "Bool" -> <<Fixed("boolcmp")>>
      [] OTHER -> <<Fixed("numcmp")>>

\* genFuncFor's switch on the underlying type, described by d
genFuncForSwitchOn(fm, sk, bound, typ, d) ==
    CASE d.kind = "Pointer" -> pointerCase(GetFuncName(fm, d.elem), sk, d.elem)
      [] d.kind = "Basic" -> Res("ok", basicCase(d.bkind), fm, sk, NoErr)
      [] d.kind = "Struct" -> structFields(d.fields, 1, fm, <<>>, sk)
      [] d.kind = "Slice" ->
           elemLoop(NilCheck \o LenCheck \o <<Fixed("for i")>>, sk, d.elem,
                    field(fm, d.elem))
      [] d.kind = "Array" ->
           elemLoop(LenCheck \o <<Fixed("for i")>>, sk, d.elem, field(fm, d.elem))
      [] d.kind = "Map" -> mapCase(fm, sk, bound, typ, d)
      [] OTHER -> Res("err", <<>>, fm, sk, Err("unsupported", <<>>, typ))

genFuncForBody(fm, sk, bound, typ) ==
    genFuncForSwitchOn(fm, sk, bound, typ, TypeDef[Underlying(typ)])

\* the <<type, name>> pairs the lines show to have been returned by GetFuncName
Requests(lines) ==
    {<<lines[i].ty, lines[i].fn>> :
        i \in {j \in 1..Len(lines) : lines[j].fn # NoName
                                      /\ lines[j].k \notin {"thiskeys", "thatkeys"}}}

-----------------------------------------------------------------------------
(* The run: newCompare, SetSortedKeys, and the driver calling Generate     *)
(* until nothing is pending.                                               *)

\* nothing constructed yet
Fresh ==
    /\ this = "nil"
    /\ funcToTyp = newTypesMap
    /\ generated = {}
    /\ finished = {}
    /\ sortedKeys = "nil"
    /\ skNames = {}
    /\ out = <<>>
    /\ imports = {}
    /\ todo = {}
    /\ cur = ""
    /\ err = NoErr
    /\ handed = {}
    /\ entered = [t \in Types |-> 0]
    /\ rounds = 0

GenInit ==
    /\ calls \in SeqsUpTo(CallSites, MaxCalls)
    /\ pc = "start"
    /\ Fresh

CmpIdle ==
    /\ ctype = "int" /\ va = 0 /\ vb = 0 /\ res = 0 /\ rres = 0 /\ cstate = "off"

Init == GenInit /\ CmpIdle

\* newCompare returns r.err, or the instance with the registry r.fm
newCompareReturn(r) ==
    IF r.err # NoErr
    THEN /\ pc' = "failed"
         /\ err' = r.err
         /\ UNCHANGED <<this, funcToTyp, imports, handed>>
    ELSE /\ pc' = "idle"
         /\ this' = "compare"
         /\ funcToTyp' = r.fm
         /\ imports' = {"bytes", "strings"}
         /\ handed' = {<<t, r.fm[t]>> : t \in {u \in Types : r.fm[u] # NoName}}
         /\ err' = NoErr

\* newCompare (the whole constructor)
NewCompare ==
    /\ pc = "start"
    /\ newCompareReturn(newCompareLoop(calls, 1, newTypesMap))
    /\ UNCHANGED <<calls, generated, finished, sortedKeys, skNames, out, todo, cur,
                   entered, rounds, cmpVars>>

\* compare.SetSortedKeys, which the driver calls, or fails to call, before
\* generation begins
SetSortedKeys ==
    /\ pc = "idle"
    /\ rounds = 0
    /\ sortedKeys = "nil"
    /\ sortedKeys' = "bound"
    /\ UNCHANGED <<calls, this, pc, funcToTyp, generated, finished, skNames, out, imports,
                   todo, cur, err, handed, entered, rounds, cmpVars>>

\* the driver calls Generate, which takes the ToGenerate() snapshot
GenerateCall ==
    /\ pc = "idle"
    /\ ToGenerate(funcToTyp, generated) # {}
    /\ rounds < MaxRounds
    /\ todo' = ToGenerate(funcToTyp, generated)
    /\ rounds' = rounds + 1
    /\ pc' = "loop"
    /\ UNCHANGED <<calls, this, funcToTyp, generated, finished, sortedKeys, skNames, out,
                   imports, cur, err, handed, entered, cmpVars>>

\* TypesMap.Generating: the type is no longer pending
Generating(gen, typ) == gen \cup {typ}

\* enter without the call of Generating
enter_unmarked(typ) ==
    /\ cur' = typ
    /\ generated' = generated
    /\ entered' = [entered EXCEPT ![typ] = @ + 1]

\* genFuncFor is entered for typ and marks it
enter(typ) ==
    /\ cur' = typ
    /\ generated' = Generating(generated, typ)
    /\ entered' = [entered EXCEPT ![typ] = @ + 1]

\* Generate's loop takes the next type of the snapshot and calls genFuncFor
genFuncForEnter ==
    /\ pc = "loop"
    /\ \E typ \in todo :
         /\ todo' = todo \ {typ}
         /\ enter(typ)
    /\ pc' = "header"
    /\ UNCHANGED <<calls, this, funcToTyp, finished, sortedKeys, skNames, out, imports,
                   err, handed, rounds, cmpVars>>

\* headerLines printing the conventional name of the type
headerLines_fresh(g, typ) ==
    /\ out' = out \o <<Fixed(""), Line("func", newName(typ), typ)>>
    /\ funcToTyp' = g.fm
    /\ handed' = handed \cup {<<typ, newName(typ)>>}

\* the header "func <name>(this, that <type>) int {" after a blank line
headerLines(g, typ) ==
    /\ out' = out \o <<Fixed(""), Line("func", g.name, typ)>>
    /\ funcToTyp' = g.fm
    /\ handed' = handed \cup {<<typ, g.name>>}

\* genFuncFor prints the blank line and the function header
genFuncForHeader ==
    /\ pc = "header"
    /\ headerLines(GetFuncName(funcToTyp, cur), cur)
    /\ pc' = "body"
    /\ UNCHANGED <<calls, this, generated, finished, sortedKeys, skNames, imports, todo,
                   cur, err, entered, rounds, cmpVars>>

\* the effect of the switch whose outcome is r
switchResult(r) ==
    /\ out' = out \o r.lines
    /\ funcToTyp' = r.fm
    /\ skNames' = r.sk
    /\ handed' = handed \cup Requests(r.lines)
    /\ err' = r.err
    /\ pc' = CASE r.status = "ok" -> "close"
               [] r.status = "err" -> "failed"
               [] OTHER -> "panicked"

\* genFuncFor's switch: the body, or the error that Generate returns at once
genFuncForSwitch ==
    /\ pc = "body"
    /\ switchResult(genFuncForBody(funcToTyp, skNames, sortedKeys, cur))
    /\ UNCHANGED <<calls, this, generated, finished, sortedKeys, imports, todo, cur,
                   entered, rounds, cmpVars>>

\* genFuncFor prints the closing brace and returns nil
genFuncForClose ==
    /\ pc = "close"
    /\ out' = Append(out, Fixed("end"))
    /\ finished' = finished \cup {cur}
    /\ pc' = "loop"
    /\ UNCHANGED <<calls, this, funcToTyp, generated, sortedKeys, skNames, imports, todo,
                   cur, err, handed, entered, rounds, cmpVars>>

\* Generate has visited its whole snapshot and returns nil
GenerateReturn ==
    /\ pc = "loop"
    /\ todo = {}
    /\ pc' = "idle"
    /\ UNCHANGED <<calls, this, funcToTyp, generated, finished, sortedKeys, skNames, out,
                   imports, todo, cur, err, handed, entered, rounds, cmpVars>>

\* the driver ends the run when nothing is pending
Finish ==
    /\ pc = "idle"
    /\ ToGenerate(funcToTyp, generated) = {}
    /\ pc' = "done"
    /\ UNCHANGED <<calls, this, funcToTyp, generated, finished, sortedKeys, skNames, out,
                   imports, todo, cur, err, handed, entered, rounds, cmpVars>>

Next ==
    \/ NewCompare
    \/ SetSortedKeys
    \/ GenerateCall
    \/ genFuncForEnter
    \/ genFuncForHeader
    \/ genFuncForSwitch
    \/ genFuncForClose
    \/ GenerateReturn
    \/ Finish

Spec == Init /\ [][Next]_vars

-----------------------------------------------------------------------------
(* What the printed functions compute.  Values: integers for int and byte, *)
(* [nan, v] for float64, sequences of bytes for string, [re, im] for       *)
(* complex128, Nil or NonNil(v) for pointers and slices, and for maps       *)
(* NonNil of the key -> value function together with the order in which    *)
(* this map happens to be iterated.                                        *)

Nil == [nil |-> TRUE]
NonNil(v) == [nil |-> FALSE, v |-> v]
MapOf(m, order) == [nil |-> FALSE, v |-> m, order |-> order]

IntVals == 1..MaxInt
NaN == [nan |-> TRUE, v |-> 0]
FloatVals == {[nan |-> FALSE, v |-> 1], [nan |-> FALSE, v |-> 2], NaN}
ComplexVals == {[re |-> 1, im |-> 1], [re |-> 1, im |-> 2], [re |-> 2, im |-> 1]}

\* the orders in which the keys K can be iterated
Orders(K) ==
    {o \in [1..Cardinality(K) -> K] : \A i, j \in DOMAIN o : o[i] = o[j] => i = j}

RECURSIVE Values(_), StructValues(_, _)

\* the values of a struct with the given fields, from field i on
StructValues(fields, i) ==
    IF i > Len(fields) THEN {<<>>}
    ELSE {<<x>> \o rest : x \in Values(fields[i].typ), rest \in StructValues(fields, i + 1)}

ValuesOf(d) ==
    CASE d.kind = "Basic" ->
           (CASE d.bkind = "Int" -> IntVals
              [] d.bkind = "Byte" -> IntVals
              [] d.bkind = "Float64" -> FloatVals
              [] d.bkind = "String" -> SeqsUpTo(IntVals, MaxLen)
              [] d.bkind = "Bool" -> BOOLEAN
              [] d.bkind = "Complex128" -> ComplexVals)
      [] d.kind = "Pointer" -> {Nil} \cup {NonNil(x) : x \in Values(d.elem)}
      [] d.kind = "Slice" ->
           {Nil} \cup {NonNil(x) : x \in SeqsUpTo(Values(d.elem), MaxLen)}
      [] d.kind = "Array" -> [1..2 -> Values(d.elem)]
      [] d.kind = "Struct" -> StructValues(d.fields, 1)
      [] d.kind = "Map" ->
           {Nil} \cup UNION {{MapOf(m, o) : m \in [K -> Values(d.elem)], o \in Orders(K)} :
                               K \in SUBSET Values(d.key)}

Values(t) == ValuesOf(TypeDef[Underlying(t)])

\* Go's == and < on values of a basic type; every comparison with NaN is false
GoEqual(bkind, a, b) ==
    IF bkind = "Float64" THEN ~a.nan /\ ~b.nan /\ a.v = b.v ELSE a = b

GoLess(bkind, a, b) ==
    IF bkind = "Float64" THEN ~a.nan /\ ~b.nan /\ a.v < b.v ELSE a < b

\* strings.Compare and bytes.Compare: lexicographic, by bytes
FirstDiff(a, b) ==
    {i \in 1..Len(a) : i <= Len(b) /\ a[i] # b[i] /\ \A j \in 1..(i - 1) : a[j] = b[j]}

Lexicographic(a, b, diff) ==
    IF diff # {} THEN (IF \E i \in diff : a[i] < b[i] THEN -1 ELSE 1)
    ELSE IF \A i \in 1..Len(a) : i <= Len(b) /\ a[i] = b[i]
         THEN (IF Len(a) = Len(b) THEN 0 ELSE -1)
         ELSE 1

stringsCompare(a, b) == Lexicographic(a, b, FirstDiff(a, b))

\* bytes.Compare takes a nil slice for an empty one
bytesOf(x) == IF x.nil THEN <<>> ELSE x.v

\* the body printed for bool
boolCase(a, b) == IF a = b THEN 0 ELSE IF b THEN -1 ELSE 1

\* the body printed for the other basic kinds
numCase(bkind, a, b) ==
    IF ~GoEqual(bkind, a, b) THEN (IF GoLess(bkind, a, b) THEN -1 ELSE 1) ELSE 0

\* "if this == nil { if that == nil { return 0 }; return -1 }; if that == nil
\* { return 1 }", then the rest
nilCheck(a, b, rest) ==
    IF a.nil THEN (IF b.nil THEN 0 ELSE -1) ELSE IF b.nil THEN 1 ELSE rest

\* "if len(this) != len(that) { if len(this) < len(that) { return -1 };
\* return 1 }", then the rest
lenCheck(la, lb, rest) ==
    IF la # lb THEN (IF la < lb THEN -1 ELSE 1) ELSE rest

\* insertion of a key in a sorted sequence of keys
RECURSIVE Insert(_, _)
Insert(s, x) ==
    IF s = <<>> THEN <<x>>
    ELSE IF x < Head(s) THEN <<x>> \o s
    ELSE <<Head(s)>> \o Insert(Tail(s), x)

RECURSIVE sortKeys(_)
sortKeys(s) == IF s = <<>> THEN <<>> ELSE Insert(sortKeys(Tail(s)), Head(s))

\* the function the sortedKeys plugin generates: the keys the iteration
\* yields, sorted
deriveSortedKeys(m) == sortKeys(m.order)

RECURSIVE compareFunc(_, _, _), fieldExpr(_, _, _), structLoop(_, _, _, _),
          elemsLoop(_, _, _, _), keysLoop(_, _, _, _, _, _)

\* "if c := <rest of the loop>": the first c that is not zero is returned
firstNonZero(c, rest) == IF c # 0 THEN c ELSE rest

\* the struct body: the fields in order, from field i on
structLoop(fields, i, a, b) ==
    IF i > Len(fields) THEN 0
    ELSE firstNonZero(fieldExpr(fields[i].typ, a[i], b[i]),
                      structLoop(fields, i + 1, a, b))

\* "for i := 0; i < len(this); i++", from element i on
elemsLoop(elem, i, a, b) ==
    IF i > Len(a) THEN 0
    ELSE firstNonZero(fieldExpr(elem, a[i], b[i]), elemsLoop(elem, i + 1, a, b))

\* keysStep without the else branch
keysStep_valuesOnly(d, a, b, thiskey, thatkey) ==
    IF GoEqual(TypeDef[d.key].bkind, thiskey, thatkey)
    THEN fieldExpr(d.elem, a.v[thiskey], b.v[thatkey])
    ELSE 0

\* one round of the map loop: the values when the keys are equal, the keys
\* otherwise
keysStep(d, a, b, thiskey, thatkey) ==
    IF GoEqual(TypeDef[d.key].bkind, thiskey, thatkey)
    THEN fieldExpr(d.elem, a.v[thiskey], b.v[thatkey])
    ELSE fieldExpr(d.key, thiskey, thatkey)

\* "for i, thiskey := range thiskeys", from position i on
keysLoop(d, i, a, b, thiskeys, thatkeys) ==
    IF i > Len(thiskeys) THEN 0
    ELSE firstNonZero(keysStep(d, a, b, thiskeys[i], thatkeys[i]),
                      keysLoop(d, i + 1, a, b, thiskeys, thatkeys))

\* the expression compare.field prints for a field of type fieldType, on
\* the values a and b of the field
exprValue(line, fieldType, a, b) ==
    CASE line.k = "strings.Compare" -> stringsCompare(a, b)
      [] line.k = "bytes.Compare" -> stringsCompare(bytesOf(a), bytesOf(b))
      [] line.k = "call" -> compareFunc(line.ty, a, b)

fieldExpr(fieldType, a, b) ==
    exprValue(field(newTypesMap, fieldType).line, fieldType, a, b)

\* the function genFuncFor prints for a type whose underlying type is d
bodyValue(d, a, b) ==
    CASE d.kind = "Pointer" -> nilCheck(a, b, compareFunc(d.elem, a.v, b.v))
      [] d.kind = "Basic" ->
           (CASE d.bkind = "String" -> stringsCompare(a, b)
              [] d.bkind \in {"Complex128", "Complex64"} -> 0
              [] d.bkind = "Bool" -> boolCase(a, b)
              [] OTHER -> numCase(d.bkind, a, b))
      [] d.kind = "Struct" -> structLoop(d.fields, 1, a, b)
      [] d.kind = "Slice" ->
           nilCheck(a, b, lenCheck(Len(a.v), Len(b.v), elemsLoop(d.elem, 1, a.v, b.v)))
      [] d.kind = "Array" ->
           lenCheck(Len(a), Len(b), elemsLoop(d.elem, 1, a, b))
      [] d.kind = "Map" ->
           nilCheck(a, b,
                    lenCheck(Cardinality(DOMAIN a.v), Cardinality(DOMAIN b.v),
                             keysLoop(d, 1, a, b, deriveSortedKeys(a), deriveSortedKeys(b))))

compareFunc(typ, a, b) == bodyValue(TypeDef[Underlying(typ)], a, b)

\* the types whose printed functions are evaluated
CmpTypes == {"int", "float64", "string", "bool", "complex128", "*int", "[]int",
             "[2]bool", "Pair", "map[int]float64"}

CmpInit ==
    /\ calls = <<>>
    /\ pc = "off"
    /\ Fresh
    /\ ctype \in CmpTypes
    /\ va \in Values(ctype)
    /\ vb \in Values(ctype)
    /\ res = 0
    /\ rres = 0
    /\ cstate = "input"

\* the printed function of ctype is called on (va, vb) and on (vb, va)
Compare ==
    /\ cstate = "input"
    /\ res' = compareFunc(ctype, va, vb)
    /\ rres' = compareFunc(ctype, vb, va)
    /\ cstate' = "compared"
    /\ UNCHANGED <<genVars, ctype, va, vb>>

NextCmp == Compare

SpecCmp == CmpInit /\ [][NextCmp]_vars

-----------------------------------------------------------------------------
(* Reading the Printer's lines back.                                       *)

\* positions of the headers
HeaderAt == {i \in 1..Len(out) : out[i].k = "func"}

\* positions of the headers printed for typ
Headers(typ) == {i \in HeaderAt : out[i].ty = typ}

\* the body printed after the header at h is closed at position j
ClosedAt(h, j) ==
    /\ j \in (h + 1)..Len(out)
    /\ out[j].k = "end"
    /\ \A m \in (h + 1)..(j - 1) : out[m].k \notin {"func", "end"}

\* a whole function (header, body, closing brace) was printed for typ
Complete(typ) == \E h \in Headers(typ) : \E j \in 1..Len(out) : ClosedAt(h, j)

\* the lines of the bodies printed for typ
BodyLines(typ) ==
    {out[m] : m \in {n \in 1..Len(out) :
                       \E h \in Headers(typ) :
                          /\ h < n
                          /\ \A q \in (h + 1)..n : out[q].k \notin {"func", "end"}}}

\* the lines that compare by calling a Compare method of the type ty
MethodCalls == {"method", "value:method", "key:method"}

\* the lines that call the function generated for the type ty
NameCalls == {"call", "value:call", "key:call", "return call"}

MapTypes == {t \in Types : TypeDef[Underlying(t)].kind = "Map"}

Pending == ToGenerate(funcToTyp, generated)

-----------------------------------------------------------------------------
(* Claims about the generation run (specification Spec).                   *)

\* a call site of the configured prefix that has not exactly two arguments
\* of one type
Invalid(call) ==
    /\ call.ident
    /\ HasPrefix(call.name, comparePrefix)
    /\ Len(call.args) # 2 \/ call.args[1] # call.args[2]

FirstInvalid == CHOOSE i \in DOMAIN calls :
                  Invalid(calls[i]) /\ \A j \in 1..(i - 1) : ~Invalid(calls[j])

\* C1 as stated: whenever some call site with the prefix has not exactly two
\* arguments of identical type, newCompare returns an error citing that call
\* site's callee name, returns no instance and nothing has been printed.
C1_CitesEveryInvalidCallee ==
    pc # "start" =>
      \A i \in DOMAIN calls :
         Invalid(calls[i]) =>
            /\ pc = "failed"
            /\ err.cites = calls[i].name
            /\ this = "nil"
            /\ out = <<>>

\* C1 amended: when some call site with the prefix fails the arity or the
\* type identity check, newCompare returns an error and no instance, and
\* nothing has been printed nor imported; unless registering an earlier call
\* site failed first, the error is the one of the first such call site and
\* cites its callee name.
C1_RejectsBeforeEmission ==
    (pc # "start" /\ \E i \in DOMAIN calls : Invalid(calls[i])) =>
       /\ pc = "failed"
       /\ err # NoErr
       /\ this = "nil"
       /\ out = <<>>
       /\ imports = {}
       /\ generated = {}
       /\ err.kind # "register" =>
            /\ err.kind \in {"arity", "mismatch"}
            /\ err.cites = calls[FirstInvalid].name
            /\ err.kind = "arity" <=> Len(calls[FirstInvalid].args) # 2

\* C1 witness: a valid call site was registered, the next one has arguments
\* of different types and is rejected with its callee name
C1_Witness ==
    /\ pc = "failed"
    /\ Len(calls) = 2
    /\ ~Skipped(calls[1]) /\ ~Invalid(calls[1])
    /\ Invalid(calls[2])
    /\ err.kind = "mismatch"
    /\ err.cites = calls[2].name

\* C2: every request for a type's name returns the same name, genFuncFor
\* runs at most once per type, and at the end of the run exactly one function
\* has been printed for every type that has a name.
C2_Memoization ==
    /\ \A p \in handed : \A q \in handed : p[1] = q[1] => p[2] = q[2]
    /\ \A p \in handed : funcToTyp[p[1]] = p[2]
    /\ \A t \in Types : entered[t] <= 1
    /\ \A i \in HeaderAt : \A j \in HeaderAt : out[i].ty = out[j].ty => i = j
    /\ pc = "done" =>
         \A t \in Types :
            funcToTyp[t] # NoName => Complete(t)

\* C2 witness: int was named by a call site and requested again for the
\* elements of []int, and the run ended with both functions printed
C2_Witness ==
    /\ pc = "done"
    /\ funcToTyp["int"] = [base |-> <<"deriveCompare", "B">>, of |-> ""]
    /\ \E i \in 1..Len(out) :
          out[i].k = "call" /\ out[i].ty = "int" /\ out[i].fn = funcToTyp["int"]
    /\ Complete("int") /\ Complete("[]int")

\* the types the description of a type (of its underlying type, when it is
\* named) mentions
Constituents(t) ==
    LET d == TypeDef[Underlying(t)] IN
    (IF d.elem # "" THEN {d.elem} ELSE {})
      \cup (IF d.key # "" THEN {d.key} ELSE {})
      \cup {d.fields[i].typ : i \in DOMAIN d.fields}

RECURSIVE Closure(_, _)
Closure(S, n) ==
    IF n = 0 THEN S
    ELSE Closure(S \cup UNION {Constituents(t) : t \in S}, n - 1)

\* the types of the call sites newCompare registers
CallTypes == {calls[i].args[1] : i \in {j \in DOMAIN calls : ~Skipped(calls[j])}}

\* the types transitively reachable from the call sites' types
Reachable == Closure(CallTypes, Cardinality(Types))

ComparedByFunction(t) ==
    LET d == TypeDef[t] IN
    \/ d.kind = "Basic" /\ d.bkind # "String"
    \/ d.kind = "Pointer" /\ TypeDef[d.elem].kind # "Named"
    \/ d.kind \in {"Array", "Map"}
    \/ d.kind = "Slice" /\ ~(TypeDef[d.elem].kind = "Basic" /\ TypeDef[d.elem].bkind = "Byte")

\* the types whose generated function the function for t calls
FunctionRefs(t) ==
    LET d == TypeDef[Underlying(t)] IN
    CASE d.kind = "Pointer" -> {d.elem}
      [] d.kind = "Struct" ->
           {d.fields[i].typ : i \in {j \in DOMAIN d.fields : ComparedByFunction(d.fields[j].typ)}}
      [] d.kind \in {"Slice", "Array"} -> {e \in {d.elem} : ComparedByFunction(e)}
      [] d.kind = "Map" -> {e \in {d.elem, d.key} : ComparedByFunction(e)}
      [] OTHER -> {}

RECURSIVE FunctionClosure(_, _)
FunctionClosure(S, n) ==
    IF n = 0 THEN S
    ELSE FunctionClosure(S \cup UNION {FunctionRefs(t) : t \in S}, n - 1)

C4_NodeCallsItself ==
    (pc = "done" /\ funcToTyp["Node"] # NoName) =>
       /\ entered["Node"] = 1
       /\ Complete("Node")
       /\ \E l \in BodyLines("Node") :
             /\ l.k \in NameCalls
             /\ l.ty \in {"Node", "*Node"}
             /\ l.fn = funcToTyp[l.ty]

\* C5: when newCompare or Generate has returned an error, nothing has been
\* printed.
C5_NothingEmittedOnError ==
    pc = "failed" => out = <<>>

\* C8: a comparison by a call of a type's Compare method is printed only for
\* a named type that has such a method.
C8_MethodCallOnlyWithMethod ==
    \A i \in 1..Len(out) :
       out[i].k \in MethodCalls => TypeDef[out[i].ty].hasMethod

\* the map case has run for t
PastMapCase(t) ==
    /\ t \in MapTypes
    /\ t \in generated
    /\ t = cur => pc \notin {"header", "body"}

\* C9: when the map case runs for a type while no sortedKeys plugin is bound
\* the run stops there in a panic, for good, Generate has not returned and
\* the function of the map type is left unclosed; with a plugin bound the map
\* case takes the key ordering function's name for that very map type from
\* the plugin.
C9_SortedKeysBinding ==
    /\ \A t \in MapTypes \cap generated :
          PastMapCase(t) =>
             IF t \in skNames
             THEN /\ sortedKeys = "bound"
                  /\ pc # "panicked"
                  /\ \E h \in Headers(t) :
                        /\ Len(out) >= h + 4
                        /\ out[h + 3] = Line("thiskeys", sortedKeysName(t), t)
                        /\ out[h + 4] = Line("thatkeys", sortedKeysName(t), t)
             ELSE /\ pc = "panicked"
                  /\ cur = t
                  /\ ~Complete(t)
                  /\ t \notin finished
    /\ sortedKeys = "nil" => skNames = {}
    /\ pc = "panicked" =>
          /\ sortedKeys = "nil"
          /\ PastMapCase(cur)
          /\ ~ENABLED Next

\* C9 witness: the map case of map[string]float64, requested for a field of
\* Dict, ran with no plugin bound
C9_Witness ==
    /\ pc = "panicked"
    /\ cur = "map[string]float64"
    /\ Headers(cur) # {}
    /\ Complete("Dict")

\* the registry state of a type
State(t) ==
    IF funcToTyp[t] = NoName THEN "None"
    ELSE IF t \notin generated THEN "Requested"
    ELSE IF t \in finished THEN "Done"
    ELSE "Generating"

LifecycleSteps ==
    {<<"None", "Requested">>, <<"Requested", "Generating">>, <<"Generating", "Done">>}

LifecycleInv ==
    /\ \A t \in Types : entered[t] <= 1
    /\ \A t \in Types : Headers(t) # {} => t \in generated
    /\ pc \in {"header", "body", "close"} => cur \in generated /\ cur \notin Pending
    /\ todo \cap generated = {}
    /\ finished \subseteq generated

LifecycleStep ==
    /\ \A t \in Types : State(t)' # State(t) => <<State(t), State(t)'>> \in LifecycleSteps
    /\ handed' # handed => (pc = "start" \/ cur \in generated)
    /\ \A t \in generated : t \notin Pending'

\* C10: every registry entry moves Requested -> Generating -> Done, each step
\* once and never backwards; genFuncFor marks its type before the header is
\* printed or any name is requested, so a marked type is never pending again.
C10_Lifecycle == []LifecycleInv /\ [][LifecycleStep]_vars

\* C10 witness: while the body of P (type P *P) is printed, P's own name is
\* requested again; P is Generating and not pending
C10_Witness ==
    /\ pc = "close"
    /\ cur = "P"
    /\ State("P") = "Generating"
    /\ \E l \in BodyLines("P") : l.k = "return call" /\ l.ty = "P" /\ l.fn = funcToTyp["P"]
    /\ "P" \notin Pending

-----------------------------------------------------------------------------
(* Claims about the printed functions (specification SpecCmp).             *)

Sign(c) == IF c < 0 THEN -1 ELSE IF c > 0 THEN 1 ELSE 0

Nilable == {t \in Types : TypeDef[Underlying(t)].kind \in {"Pointer", "Slice", "Map"}}

\* C6: the printed comparison is antisymmetric on every pair of values of
\* every supported type, a value compares equal to itself, nil sorts before
\* non-nil and false before true.
C6_Antisymmetry ==
    cstate = "compared" =>
       /\ Sign(res) = -Sign(rres)
       /\ va = vb => res = 0
       /\ (ctype \in Nilable /\ va.nil /\ ~vb.nil) => res < 0
       /\ (ctype = "bool" /\ ~va /\ vb) => res < 0

\* the two maps have the same keys and, by Go's ==, the same value per key
EqualContent(d, a, b) ==
    /\ DOMAIN a.v = DOMAIN b.v
    /\ \A k \in DOMAIN a.v : GoEqual(TypeDef[d.elem].bkind, a.v[k], b.v[k])

\* the keys K in ascending order
Ascending(K) == CHOOSE s \in Orders(K) : \A i, j \in DOMAIN s : i < j => s[i] < s[j]

\* the comparison at position i of the two ascending key sequences ka and kb
AtPosition(d, a, b, ka, kb, i) ==
    IF ka[i] = kb[i]
    THEN compareFunc(d.elem, a.v[ka[i]], b.v[kb[i]])
    ELSE compareFunc(d.key, ka[i], kb[i])

FirstOf(d, a, b, ka, kb, nz) ==
    IF nz = {} THEN 0
    ELSE AtPosition(d, a, b, ka, kb, CHOOSE i \in nz : \A j \in nz : i <= j)

LockStep(d, a, b, ka, kb) ==
    FirstOf(d, a, b, ka, kb, {i \in DOMAIN ka : AtPosition(d, a, b, ka, kb, i) # 0})

MapClaim(d, a, b) ==
    /\ EqualContent(d, a, b) => res = 0 /\ rres = 0
    /\ Cardinality(DOMAIN a.v) = Cardinality(DOMAIN b.v) =>
          res = LockStep(d, a, b, Ascending(DOMAIN a.v), Ascending(DOMAIN b.v))

====
